---- MODULE Spec2Model ----
(***************************************************************************)
(* Model of the quiz game server (Express + Socket.IO) of QuizGame: the    *)
(* in-memory game state, the socket event handlers and the two kinds of    *)
(* setTimeout callbacks (the question timer and the delayed sendQuestion). *)
(* Node runs handlers and timer callbacks one at a time, so every handler  *)
(* and every callback is one atomic action.                                *)
(***************************************************************************)
EXTENDS Integers, Sequences, FiniteSets, TLC

(***************************************************************************)
(* Bounds of the model.                                                    *)
(***************************************************************************)
\* Socket ids 1..NumSockets connect in the specification Spec, and one more
\* in SpecCrowd; an id is never reused after its disconnect.
NumSockets == 2
\* At most MaxTimers setTimeout callbacks are pending at once.
MaxTimers == 2
\* Scores are explored up to MaxScore.
MaxScore == 20

(***************************************************************************)
(* Program constants.                                                      *)
(***************************************************************************)
\* The sample question set: id and answerIndex of each question (text and
\* options are constant strings that no handler reads).
questions ==
  << [id |-> 1, answerIndex |-> 1],
     [id |-> 2, answerIndex |-> 1],
     [id |-> 3, answerIndex |-> 0],
     [id |-> 4, answerIndex |-> 3] >>

QUESTION_DURATION_MS == 15000
\* Delay of the sendQuestion callback queued by endQuestionAndMaybeNext.
NEXT_QUESTION_DELAY_MS == 1500
\* nickname.trim().slice(0, 20)
NICKNAME_MAX == 20
\* if (correct) player.score += 10
CORRECT_POINTS == 10

ROOM == "default"

(***************************************************************************)
(* JavaScript values that arrive in event payloads.  A string is a         *)
(* sequence of one-character strings.                                      *)
(***************************************************************************)
Undefined == [t |-> "undefined"]
Null == [t |-> "null"]
NaN == [t |-> "nan"]
Num(n) == [t |-> "number", v |-> n]
Str(s) == [t |-> "string", v |-> s]
Bool(b) == [t |-> "boolean", v |-> b]

\* !v is false
Truthy(v) ==
  CASE v.t = "undefined" -> FALSE
    [] v.t = "null" -> FALSE
    [] v.t = "nan" -> FALSE
    [] v.t = "number" -> v.v # 0
    [] v.t = "string" -> v.v # << >>
    [] v.t = "boolean" -> v.v
    [] OTHER -> TRUE

WhiteSpace == {" "}

RECURSIVE TrimStart(_)
TrimStart(s) ==
  IF s # << >> /\ Head(s) \in WhiteSpace THEN TrimStart(Tail(s)) ELSE s

RECURSIVE TrimEnd(_)
TrimEnd(s) ==
  IF s # << >> /\ s[Len(s)] \in WhiteSpace
  THEN TrimEnd(SubSeq(s, 1, Len(s) - 1))
  ELSE s

\* String.prototype.trim
Trim(s) == TrimEnd(TrimStart(s))

\* String.prototype.slice(0, n)
Slice0(s, n) == SubSeq(s, 1, IF Len(s) < n THEN Len(s) ELSE n)

DigitValue(c) ==
  CASE c = "0" -> 0 [] c = "1" -> 1 [] c = "2" -> 2 [] c = "3" -> 3
    [] c = "4" -> 4 [] c = "5" -> 5 [] c = "6" -> 6 [] c = "7" -> 7
    [] c = "8" -> 8 [] c = "9" -> 9 [] OTHER -> -1

RECURSIVE DecimalValue(_, _)
DecimalValue(s, acc) ==
  IF s = << >> THEN acc
  ELSE IF DigitValue(Head(s)) < 0 THEN -1
  ELSE DecimalValue(Tail(s), acc * 10 + DigitValue(Head(s)))

\* Number(v), for the values above (strings of decimal digits, or not a number)
Number(v) ==
  CASE v.t = "number" -> v
    [] v.t = "null" -> Num(0)
    [] v.t = "boolean" -> Num(IF v.v THEN 1 ELSE 0)
    [] v.t = "string" ->
         IF DecimalValue(Trim(v.v), 0) < 0 THEN NaN
         ELSE Num(DecimalValue(Trim(v.v), 0))
    [] OTHER -> NaN

\* a === n for a JavaScript value a and the number n
StrictEqNum(a, n) == a.t = "number" /\ a.v = n

(***************************************************************************)
(* State.                                                                  *)
(***************************************************************************)
VARIABLES
  players,              \* socketId -> { nickname, score }, in insertion order
  currentQuestionIndex, \* -1 means game not started
  acceptingAnswers,     \* true during a question window
  answeredThisRound,    \* socket ids that have already answered
  timers,               \* pending setTimeout callbacks, in scheduling order
  closed,               \* socket ids whose 'disconnect' has been handled
  crashed,              \* the uncaught error that ended the process, if any
  emitted,              \* what the last handler or callback emitted
  roundGain,            \* history: points each socket gained since the
                        \* current question was sent
  joinedLate            \* history: the players that joined during the
                        \* question window that is open now

vars ==
  << players, currentQuestionIndex, acceptingAnswers, answeredThisRound,
     timers, closed, crashed, emitted, roundGain, joinedLate >>

Sockets == 1..NumSockets
CrowdSockets == 1..(NumSockets + 1)

\* The module-level variables of the server as one record, so that the
\* functions of the server are operators from state to state.
G ==
  [ players |-> players,
    currentQuestionIndex |-> currentQuestionIndex,
    acceptingAnswers |-> acceptingAnswers,
    answeredThisRound |-> answeredThisRound,
    timers |-> timers,
    crashed |-> crashed,
    emitted |-> emitted,
    roundGain |-> roundGain,
    joinedLate |-> joinedLate ]

\* io.to(ROOM).emit(ev, data)
EmitRoom(g, ev, data) ==
  [g EXCEPT !.emitted = Append(@, [ev |-> ev, to |-> ROOM, socket |-> 0, data |-> data])]

\* socket.emit(ev, data), for the socket with id s
EmitSocket(g, s, ev, data) ==
  [g EXCEPT !.emitted = Append(@, [ev |-> ev, to |-> "socket", socket |-> s, data |-> data])]

\* An uncaught TypeError: the rest of the handler does not run, and nothing
\* catches it, so the process ends.
NoError == "none"
BadPayload == "TypeError: cannot destructure the payload"
NoQuestion == "TypeError: cannot read properties of undefined (reading 'id')"
Throw(g, error) == [g EXCEPT !.crashed = error]

\* setTimeout(fn, delay).  stale is a history field: resetGame ran since the
\* callback was scheduled.
SetTimeout(g, fn, delay) ==
  [g EXCEPT !.timers = Append(@, [fn |-> fn, delay |-> delay, stale |-> FALSE])]

\* clearTimeout(questionTimer): questionTimer is the handle of the last
\* question timer, and a new one is set only after the old one is cleared,
\* so the pending question timer, if any, is the one questionTimer names.
ClearTimeout(g) ==
  [g EXCEPT !.timers = SelectSeq(@, LAMBDA t : t.fn # "questionTimer")]

\* questions[i] of the 0-based array; undefined out of range
HasQuestion(i) == i >= 0 /\ i < Len(questions)
QuestionAt(i) == questions[i + 1]

\* players[id] lookup: position of id in the insertion order, 0 if absent
PlayerPos(ps, id) ==
  IF \E i \in DOMAIN ps : ps[i].id = id
  THEN CHOOSE i \in DOMAIN ps : ps[i].id = id
  ELSE 0

\* delete players[id]
DeletePlayer(ps, id) == SelectSeq(ps, LAMBDA p : p.id # id)

\* A variant of PutPlayer that does not look for the key: always a new entry.
PutPlayer_appends(ps, id, entry) ==
  Append(ps, [id |-> id, nickname |-> entry.nickname, score |-> entry.score])

\* players[id] = entry: a new key goes last, an existing key keeps its place
PutPlayer(ps, id, entry) ==
  IF PlayerPos(ps, id) = 0
  THEN Append(ps, [id |-> id, nickname |-> entry.nickname, score |-> entry.score])
  ELSE [ps EXCEPT ![PlayerPos(ps, id)] =
          [id |-> id, nickname |-> entry.nickname, score |-> entry.score]]

\* A variant of InsertByScore for a sort that is not stable: a row goes
\* before the rows of the same score.
RECURSIVE InsertByScore_beforeEqual(_, _)
InsertByScore_beforeEqual(sorted, row) ==
  IF sorted = << >> THEN << row >>
  ELSE IF Head(sorted).score > row.score
       THEN << Head(sorted) >> \o InsertByScore_beforeEqual(Tail(sorted), row)
       ELSE << row >> \o sorted

\* Array.prototype.sort((a, b) => b.score - a.score): stable, descending
RECURSIVE InsertByScore(_, _)
InsertByScore(sorted, row) ==
  IF sorted = << >> THEN << row >>
  ELSE IF Head(sorted).score >= row.score
       THEN << Head(sorted) >> \o InsertByScore(Tail(sorted), row)
       ELSE << row >> \o sorted

RECURSIVE SortByScore(_)
SortByScore(rows) ==
  IF rows = << >> THEN << >>
  ELSE InsertByScore(SortByScore(SubSeq(rows, 1, Len(rows) - 1)), rows[Len(rows)])

Leaderboard(ps) ==
  SortByScore([i \in DOMAIN ps |-> [nickname |-> ps[i].nickname, score |-> ps[i].score]])

resetRoundTracking(g) ==
  [g EXCEPT !.answeredThisRound = {}, !.joinedLate = {}]

\* A faulty variant of resetGame: the scores are never zeroed.
resetGame_keepsScores(g, resetScores) ==
  LET g2 == ClearTimeout([g EXCEPT !.currentQuestionIndex = -1,
                                   !.acceptingAnswers = FALSE])
      g3 == [g2 EXCEPT !.timers = [i \in DOMAIN @ |-> [@[i] EXCEPT !.stale = TRUE]]]
  IN resetRoundTracking(g3)

resetGame(g, resetScores) ==
  LET g1 == IF resetScores
            THEN [g EXCEPT !.players = [i \in DOMAIN @ |-> [@[i] EXCEPT !.score = 0]]]
            ELSE g
      g2 == ClearTimeout([g1 EXCEPT !.currentQuestionIndex = -1,
                                    !.acceptingAnswers = FALSE])
      g3 == [g2 EXCEPT !.timers = [i \in DOMAIN @ |-> [@[i] EXCEPT !.stale = TRUE]]]
  IN resetRoundTracking(g3)

broadcastLeaderboard(g) == EmitRoom(g, "leaderboard", Leaderboard(g.players))

activePlayerCount(g) == Len(g.players)

endQuestionAndMaybeNext(g, summary) ==
  IF ~HasQuestion(g.currentQuestionIndex)
  THEN Throw(g, NoQuestion)   \* q is undefined: q.id throws
  ELSE LET q == QuestionAt(g.currentQuestionIndex)
           g1 == EmitRoom(g, "answerResult",
                      [questionId |-> q.id, correctIndex |-> q.answerIndex,
                       summary |-> summary])
       IN SetTimeout(broadcastLeaderboard(g1), "sendQuestion", NEXT_QUESTION_DELAY_MS)

\* A variant of sendQuestion whose finished branch leaves acceptingAnswers
\* as it was.
sendQuestion_finishedKeepsAccepting(g) ==
  LET g1 == resetRoundTracking([g EXCEPT !.currentQuestionIndex = @ + 1])
  IN IF g1.currentQuestionIndex >= Len(questions)
     THEN broadcastLeaderboard(EmitRoom(g1, "quizState", "finished"))
     ELSE LET q == QuestionAt(g1.currentQuestionIndex)
              g2 == [g1 EXCEPT !.acceptingAnswers = TRUE,
                               !.roundGain = [s \in CrowdSockets |-> 0]]
              g3 == EmitRoom(g2, "question",
                         [id |-> q.id, index |-> g2.currentQuestionIndex,
                          total |-> Len(questions),
                          durationMs |-> QUESTION_DURATION_MS])
          IN SetTimeout(ClearTimeout(g3), "questionTimer", QUESTION_DURATION_MS)

sendQuestion(g) ==
  LET g1 == resetRoundTracking([g EXCEPT !.currentQuestionIndex = @ + 1])
  IN IF g1.currentQuestionIndex >= Len(questions)
     THEN [broadcastLeaderboard(EmitRoom(g1, "quizState", "finished"))
             EXCEPT !.acceptingAnswers = FALSE]
     ELSE LET q == QuestionAt(g1.currentQuestionIndex)
              g2 == [g1 EXCEPT !.acceptingAnswers = TRUE,
                               !.roundGain = [s \in CrowdSockets |-> 0]]
              g3 == EmitRoom(g2, "question",
                         [id |-> q.id, index |-> g2.currentQuestionIndex,
                          total |-> Len(questions),
                          durationMs |-> QUESTION_DURATION_MS])
          IN SetTimeout(ClearTimeout(g3), "questionTimer", QUESTION_DURATION_MS)

\* The callback of the question timer set by sendQuestion.
questionTimerCallback(g) ==
  endQuestionAndMaybeNext([g EXCEPT !.acceptingAnswers = FALSE], "Time up!")

(***************************************************************************)
(* Socket event handlers, as operators from the state before to the state  *)
(* after.  s is socket.id; payload is the argument the client sent.        *)
(***************************************************************************)
onJoinQuiz(g, s, payload) ==
  IF payload.t # "object" THEN Throw(g, BadPayload)   \* destructuring undefined or null
  ELSE LET nickname == payload.nickname
       IN IF ~Truthy(nickname) \/ nickname.t # "string"
          THEN EmitSocket(g, s, "errorMsg", "Nickname is required")
          ELSE LET g1 == [g EXCEPT
                            !.players =
                              PutPlayer(@, s,
                                [nickname |-> Slice0(Trim(nickname.v), NICKNAME_MAX),
                                 score |-> 0]),
                            !.joinedLate =
                              IF g.acceptingAnswers /\ PlayerPos(g.players, s) = 0
                              THEN @ \cup {s} ELSE @]
                   g2 == EmitSocket(g1, s, "quizState",
                              IF HasQuestion(g1.currentQuestionIndex)
                              THEN "running" ELSE "lobby")
               IN broadcastLeaderboard(g2)

\* A variant of onStartQuiz without the guard against a second start.
onStartQuiz_unguarded(g) ==
  sendQuestion(EmitRoom(g, "quizState", "running"))

onStartQuiz(g) ==
  IF g.currentQuestionIndex # -1 THEN g
  ELSE sendQuestion(EmitRoom(g, "quizState", "running"))

\* ({ resetScores = true } = {}): the defaults apply to undefined only
ResetScoresOf(payload) ==
  IF payload.t = "undefined" THEN TRUE
  ELSE IF payload.resetScores.t = "undefined" THEN TRUE
  ELSE Truthy(payload.resetScores)

onRestartQuiz(g, payload) ==
  IF payload.t = "null" THEN Throw(g, BadPayload)   \* destructuring null
  ELSE sendQuestion(EmitRoom(resetGame(g, ResetScoresOf(payload)),
                             "quizState", "running"))

\* A faulty variant of hasAnswered: a second submission is not noticed.
hasAnswered_never(g, s) == FALSE

\* answeredThisRound.has(socket.id)
hasAnswered(g, s) == s \in g.answeredThisRound

onSubmitAnswer(g, s, payload) ==
  IF payload.t # "object" THEN Throw(g, BadPayload)   \* destructuring undefined or null
  ELSE IF ~g.acceptingAnswers THEN g
  ELSE IF ~HasQuestion(g.currentQuestionIndex) THEN g
  ELSE LET q == QuestionAt(g.currentQuestionIndex)
       IN IF ~StrictEqNum(payload.questionId, q.id) THEN g
          ELSE IF hasAnswered(g, s) THEN g
          ELSE LET g1 == [g EXCEPT !.answeredThisRound = @ \cup {s}]
                   pos == PlayerPos(g1.players, s)
               IN IF pos = 0 THEN g1
                  ELSE LET correct == StrictEqNum(Number(payload.answerIndex), q.answerIndex)
                           g2 == IF correct
                                 THEN [g1 EXCEPT
                                         !.players[pos].score = @ + CORRECT_POINTS,
                                         !.roundGain[s] = @ + CORRECT_POINTS]
                                 ELSE g1
                           g3 == EmitSocket(g2, s, "answerResult",
                                      [questionId |-> payload.questionId.v,
                                       correctIndex |-> q.answerIndex,
                                       youWereCorrect |-> correct,
                                       saved |-> TRUE])
                           g4 == broadcastLeaderboard(g3)
                           total == activePlayerCount(g4)
                       IN IF total > 0 /\ Cardinality(g4.answeredThisRound) >= total
                          THEN endQuestionAndMaybeNext(
                                 ClearTimeout([g4 EXCEPT !.acceptingAnswers = FALSE]),
                                 "All players answered")
                          ELSE g4

onNextQuestion(g) ==
  IF g.currentQuestionIndex = -1 THEN g
  ELSE endQuestionAndMaybeNext(
         ClearTimeout([g EXCEPT !.acceptingAnswers = FALSE]),
         "Advanced by host")

onGetLeaderboard(g) == broadcastLeaderboard(g)

onLeaveQuiz(g, s) ==
  broadcastLeaderboard([g EXCEPT !.players = DeletePlayer(@, s)])

onDisconnect(g, s) ==
  LET g1 == [g EXCEPT !.players = DeletePlayer(@, s)]
      total == activePlayerCount(g1)
  IN IF g1.acceptingAnswers /\ Cardinality(g1.answeredThisRound) >= total
     THEN endQuestionAndMaybeNext(
            ClearTimeout([g1 EXCEPT !.acceptingAnswers = FALSE]),
            "All remaining players answered")
     ELSE broadcastLeaderboard(g1)

(***************************************************************************)
(* Inputs: the payloads clients send.                                      *)
(***************************************************************************)
LongNickname == << " " >> \o [i \in 1..(NICKNAME_MAX + 1) |-> "b"] \o << " " >>

NicknameInputs ==
  { Undefined, Num(7), Str(<< >>), Str(<< " " >>), Str(LongNickname) }

\* The nicknames of the specification Spec: one that is accepted and the
\* kinds that are refused.
SpecNicknames == { Undefined, Num(7), Str(<< >>), Str(LongNickname) }

JoinPayloadsOf(nicknames) ==
  { Undefined } \cup { [t |-> "object", nickname |-> n] : n \in nicknames }

RestartPayloads ==
  { Undefined, Null } \cup
  { [t |-> "object", resetScores |-> r] : r \in { Undefined, Bool(TRUE), Bool(FALSE) } }

QuestionIdInputs == { Num(questions[i].id) : i \in DOMAIN questions }

AnswerInputs == { Num(1), Num(3), Str(<< "1" >>), Null }

SubmitPayloadsOf(answers) ==
  { Undefined } \cup
  { [t |-> "object", questionId |-> q, answerIndex |-> a] :
      q \in QuestionIdInputs, a \in answers }

SubmitPayloads == SubmitPayloadsOf(AnswerInputs)

\* The answers of the specification SpecCrowd: option 3, which is right for
\* the last question only.
CrowdAnswers == { Num(3) }

(***************************************************************************)
(* Actions: one per socket event and one per kind of timer callback.       *)
(***************************************************************************)
Init ==
  /\ players = << >>
  /\ currentQuestionIndex = -1
  /\ acceptingAnswers = FALSE
  /\ answeredThisRound = {}
  /\ timers = << >>
  /\ closed = {}
  /\ crashed = NoError
  /\ emitted = << >>
  /\ roundGain = [s \in CrowdSockets |-> 0]
  /\ joinedLate = {}

\* The state a handler starts from: nothing emitted yet.
Begin == [G EXCEPT !.emitted = << >>]

\* The ids of the players, in no order.
PlayerIds(ps) == { ps[i].id : i \in DOMAIN ps }

\* The handler ran to g; the model explores g only within its bounds.
\* joinedLate is kept for the open question window and the present players.
Commit(g) ==
  /\ Len(g.timers) <= MaxTimers
  /\ \A i \in DOMAIN g.players : g.players[i].score <= MaxScore
  /\ players' = g.players
  /\ currentQuestionIndex' = g.currentQuestionIndex
  /\ acceptingAnswers' = g.acceptingAnswers
  /\ answeredThisRound' = g.answeredThisRound
  /\ timers' = g.timers
  /\ crashed' = g.crashed
  /\ emitted' = g.emitted
  /\ roundGain' = g.roundGain
  /\ joinedLate' = IF g.acceptingAnswers
                   THEN g.joinedLate \cap PlayerIds(g.players)
                   ELSE {}

\* A socket's handlers run while the process lives and until its disconnect.
\* The handlers that do not read socket.id are one action for all sockets.
Live(s) == crashed = NoError /\ s \notin closed

JoinQuiz(s, payload) ==
  /\ Live(s)
  /\ Commit(onJoinQuiz(Begin, s, payload))
  /\ UNCHANGED closed

StartQuiz(S) ==
  /\ \E s \in S : Live(s)
  /\ Commit(onStartQuiz(Begin))
  /\ UNCHANGED closed

RestartQuiz(S, payload) ==
  /\ \E s \in S : Live(s)
  /\ Commit(onRestartQuiz(Begin, payload))
  /\ UNCHANGED closed

SubmitAnswer(s, payload) ==
  /\ Live(s)
  /\ Commit(onSubmitAnswer(Begin, s, payload))
  /\ UNCHANGED closed

NextQuestion(S) ==
  /\ \E s \in S : Live(s)
  /\ Commit(onNextQuestion(Begin))
  /\ UNCHANGED closed

GetLeaderboard(S) ==
  /\ \E s \in S : Live(s)
  /\ Commit(onGetLeaderboard(Begin))
  /\ UNCHANGED closed

LeaveQuiz(s) ==
  /\ Live(s)
  /\ Commit(onLeaveQuiz(Begin, s))
  /\ UNCHANGED closed

Disconnect(s) ==
  /\ Live(s)
  /\ Commit(onDisconnect(Begin, s))
  /\ closed' = closed \cup {s}

\* Pending callback i can be the next to run: nothing scheduled before it is
\* due earlier (a callback scheduled earlier with a delay no longer runs first).
Due(i) == \A j \in 1..(i - 1) : timers[j].delay > timers[i].delay

RemoveAt(q, i) == SubSeq(q, 1, i - 1) \o SubSeq(q, i + 1, Len(q))

\* A setTimeout callback runs.
Timeout(i) ==
  /\ crashed = NoError
  /\ i \in DOMAIN timers
  /\ Due(i)
  /\ LET g == [Begin EXCEPT !.timers = RemoveAt(@, i)]
     IN IF timers[i].fn = "questionTimer"
        THEN Commit(questionTimerCallback(g))
        ELSE Commit(sendQuestion(g))
  /\ UNCHANGED closed

\* The next-state relation when the sockets of S connect.
NextOf(S) ==
  \/ \E s \in S, payload \in JoinPayloadsOf(SpecNicknames) : JoinQuiz(s, payload)
  \/ StartQuiz(S)
  \/ \E payload \in RestartPayloads : RestartQuiz(S, payload)
  \/ \E s \in S, payload \in SubmitPayloads : SubmitAnswer(s, payload)
  \/ NextQuestion(S)
  \/ GetLeaderboard(S)
  \/ \E s \in S : LeaveQuiz(s)
  \/ \E s \in S : Disconnect(s)
  \/ \E i \in 1..MaxTimers : Timeout(i)

Next == NextOf(Sockets)

Spec == Init /\ [][Next]_vars

\* Node runs a callback once its delay has passed: a pending callback does
\* not wait for ever.
TimerFires == \E i \in 1..MaxTimers : Timeout(i)

\* Sessions without answers and without disconnects, in which every payload
\* has the shape its handler expects: players join and leave, the host
\* starts, skips and restarts, and every pending callback runs in the end.
NextHost ==
  \/ \E s \in Sockets, payload \in JoinPayloadsOf(SpecNicknames) \ { Undefined } :
       JoinQuiz(s, payload)
  \/ StartQuiz(Sockets)
  \/ \E payload \in RestartPayloads \ { Null } : RestartQuiz(Sockets, payload)
  \/ NextQuestion(Sockets)
  \/ \E s \in Sockets : LeaveQuiz(s)
  \/ TimerFires

SpecHost == Init /\ [][NextHost]_vars /\ WF_vars(TimerFires)

\* One more socket, in a session the host starts once and does not steer:
\* players join, answer, leave and disconnect, and the timers run.
NextCrowd ==
  \/ \E s \in CrowdSockets, payload \in JoinPayloadsOf(SpecNicknames) : JoinQuiz(s, payload)
  \/ StartQuiz(CrowdSockets)
  \/ \E s \in CrowdSockets, payload \in SubmitPayloadsOf(CrowdAnswers) : SubmitAnswer(s, payload)
  \/ \E s \in CrowdSockets : LeaveQuiz(s)
  \/ \E s \in CrowdSockets : Disconnect(s)
  \/ \E i \in 1..MaxTimers : Timeout(i)

SpecCrowd == Init /\ [][NextCrowd]_vars

\* A session that is started and not restarted: every event but restartQuiz.
NextSession ==
  \/ \E s \in Sockets, payload \in JoinPayloadsOf(SpecNicknames) : JoinQuiz(s, payload)
  \/ StartQuiz(Sockets)
  \/ \E s \in Sockets, payload \in SubmitPayloads : SubmitAnswer(s, payload)
  \/ NextQuestion(Sockets)
  \/ GetLeaderboard(Sockets)
  \/ \E s \in Sockets : LeaveQuiz(s)
  \/ \E s \in Sockets : Disconnect(s)
  \/ \E i \in 1..MaxTimers : Timeout(i)

SpecSession == Init /\ [][NextSession]_vars

\* The answers of the specification SpecNames: option 1, which is right for
\* the first two questions.
NamesAnswers == { Num(1) }

\* Sessions in which the players pick their nicknames among all the kinds of
\* NicknameInputs, the host starts once and does not steer.
NextNames ==
  \/ \E s \in Sockets, payload \in JoinPayloadsOf(NicknameInputs) : JoinQuiz(s, payload)
  \/ StartQuiz(Sockets)
  \/ \E s \in Sockets, payload \in SubmitPayloadsOf(NamesAnswers) : SubmitAnswer(s, payload)
  \/ GetLeaderboard(Sockets)
  \/ \E s \in Sockets : LeaveQuiz(s)
  \/ \E s \in Sockets : Disconnect(s)
  \/ \E i \in 1..MaxTimers : Timeout(i)

SpecNames == Init /\ [][NextNames]_vars

(***************************************************************************)
(* Properties.                                                             *)
(***************************************************************************)
\* The round-end broadcasts (answerResult to the room) among the events em.
RoundEnds(em) ==
  { k \in DOMAIN em : em[k].ev = "answerResult" /\ em[k].to = ROOM }

\* A round ended with this summary in the step that led to the current state.
EndedWith(summary) ==
  \E k \in RoundEnds(emitted) : emitted[k].data.summary = summary

\* The number of pending callbacks of one kind.
Pending(ts, fn) == Cardinality({ k \in DOMAIN ts : ts[k].fn = fn })

\* Only the leaderboard was emitted.
OnlyLeaderboard(em) == Len(em) = 1 /\ em[1].ev = "leaderboard"

Finished == currentQuestionIndex >= Len(questions)

\* C1: a round ends at most once per question sent.  A question is sent
\* with acceptingAnswers = true and the first end of its round sets it to
\* false, so every step that broadcasts a round end (and with it queues a
\* sendQuestion) starts from a state that accepts answers; a further trigger
\* for the same question broadcasts nothing.
C1_EndRoundAtMostOnce ==
  [][RoundEnds(emitted') # {} => acceptingAnswers]_vars

\* C3: no sequence of events and timer firings ends the process in
\* endQuestionAndMaybeNext: whenever it runs, currentQuestionIndex is within
\* the catalog and the question it reads exists.
C3_EndRoundReadsAQuestion == crashed # NoQuestion

\* C4: once currentQuestionIndex is past the last question, answers are not
\* accepted and no question timer is pending.
C4_FinishedIsQuiet ==
  Finished => (~acceptingAnswers /\ Pending(timers, "questionTimer") = 0)

\* The payload names the question being asked.
NamesTheQuestion(payload) ==
  /\ payload.t = "object"
  /\ HasQuestion(currentQuestionIndex)
  /\ StrictEqNum(payload.questionId, QuestionAt(currentQuestionIndex).id)

\* The payload names the question being asked and its right answer.
IsCorrect(payload) ==
  /\ NamesTheQuestion(payload)
  /\ StrictEqNum(Number(payload.answerIndex),
                 QuestionAt(currentQuestionIndex).answerIndex)

ScoreOf(ps, s) == ps[PlayerPos(ps, s)].score

\* In this step the registry changes only in that player s gains n points.
Gains(s, n) ==
  /\ Len(players') = Len(players)
  /\ \A i \in DOMAIN players :
       players'[i] =
         IF players[i].id = s THEN [players[i] EXCEPT !.score = @ + n]
         ELSE players[i]

\* C2: between two questions being sent, a socket gains 10 points at most
\* once; and a submitAnswer of a player adds exactly 10 to that player's
\* score when it is the first answer to the asked question that the socket
\* gets in during the round and it is right, and leaves every score as it
\* was in every other case.
C2_ScoredOncePerRound ==
  /\ [](\A s \in CrowdSockets : roundGain[s] \in {0, CORRECT_POINTS})
  /\ [][\A s \in Sockets :
          \/ PlayerPos(players, s) = 0
          \/ Gains(s, 0) /\ ~(acceptingAnswers /\ s \notin answeredThisRound)
          \/ \A payload \in SubmitPayloads :
               \/ Gains(s, IF /\ acceptingAnswers
                              /\ s \notin answeredThisRound
                              /\ IsCorrect(payload)
                           THEN CORRECT_POINTS ELSE 0)
               \/ ~SubmitAnswer(s, payload)]_vars

\* A player who scored in two rounds, once in each, while the second round
\* is still open for the other player.
C2_Witness ==
  \E s \in Sockets :
    /\ PlayerPos(players, s) # 0
    /\ Len(players) = 2
    /\ acceptingAnswers
    /\ s \in answeredThisRound
    /\ roundGain[s] = CORRECT_POINTS
    /\ ScoreOf(players, s) = 2 * CORRECT_POINTS

\* What restartQuiz broadcasts: the state running, then the first question.
RestartBroadcast(em) ==
  /\ Len(em) = 2
  /\ em[1].ev = "quizState" /\ em[1].to = ROOM /\ em[1].data = "running"
  /\ em[2].ev = "question" /\ em[2].to = ROOM /\ em[2].data.index = 0

\* The state restartQuiz must leave, given the players before it.
Restarted(resetScores) ==
  /\ currentQuestionIndex' = 0
  /\ acceptingAnswers'
  /\ answeredThisRound' = {}
  /\ RestartBroadcast(emitted')
  /\ Pending(timers', "questionTimer") = 1
  /\ Len(players') = Len(players)
  /\ \A i \in DOMAIN players :
       players'[i] =
         IF resetScores THEN [players[i] EXCEPT !.score = 0] ELSE players[i]

\* C5: restartQuiz with resetScores true (or left out) sets every player's
\* score to 0, with resetScores false it leaves every score as it was, and
\* in both cases, from any state, it leaves the quiz running on question 0:
\* currentQuestionIndex = 0, nobody has answered, answers are accepted.
C5_RestartResumesAtZero ==
  [][\A payload \in RestartPayloads :
       \/ payload.t = "null"
       \/ Restarted(ResetScoresOf(payload))
       \/ ~RestartQuiz(Sockets, payload)]_vars

\* A restart that kept a score, made while a sendQuestion queued by the
\* round before was still pending.
C5_Witness ==
  /\ RestartBroadcast(emitted)
  /\ \E i \in DOMAIN timers : timers[i].stale
  /\ \E i \in DOMAIN players : players[i].score > 0

\* C6: no callback scheduled before a restart runs after it.
C6_RestartCancelsCallbacks ==
  [][\A i \in DOMAIN timers : ~timers[i].stale \/ ~Timeout(i)]_vars

\* C7: when the only player disconnects while answers are accepted and
\* nobody has answered, the round goes on: answers stay accepted, the
\* question timer stays pending and only the leaderboard is broadcast.
C7_SolePlayerDisconnects ==
  [][\A s \in Sockets :
       \/ ~(/\ Len(players) = 1
            /\ players[1].id = s
            /\ acceptingAnswers
            /\ answeredThisRound = {})
       \/ /\ acceptingAnswers'
          /\ timers' = timers
          /\ OnlyLeaderboard(emitted')
       \/ ~Disconnect(s)]_vars

\* Every player left after socket s is removed has answered.
RestAnswered(s) ==
  \A i \in DOMAIN players :
    players[i].id = s \/ players[i].id \in answeredThisRound

\* C8: a disconnect ends the round only if answers are accepted and every
\* player that remains has answered; if some remaining player has not, the
\* round goes on and only the leaderboard is broadcast.
C8_DisconnectEndsOnlyWhenAllAnswered ==
  [][\A s \in Sockets :
       \/ /\ RoundEnds(emitted') # {} => (acceptingAnswers /\ RestAnswered(s))
          /\ ~RestAnswered(s) =>
               /\ acceptingAnswers' = acceptingAnswers
               /\ timers' = timers
               /\ OnlyLeaderboard(emitted')
       \/ ~Disconnect(s)]_vars

\* C9: a round ends with "All players answered" only when every registered
\* player has answered the question.
C9_AllPlayersAnswered ==
  EndedWith("All players answered") =>
    \A i \in DOMAIN players : players[i].id \in answeredThisRound

\* C10: a submitAnswer from a socket without a player entry changes nothing
\* and emits nothing.
C10_UnregisteredSubmitIgnored ==
  [][\A s \in Sockets :
       \/ PlayerPos(players, s) # 0
       \/ /\ UNCHANGED << players, answeredThisRound, currentQuestionIndex,
                          acceptingAnswers, timers >>
          /\ emitted' = << >>
       \/ \A payload \in SubmitPayloads :
            payload.t # "object" \/ ~SubmitAnswer(s, payload)]_vars

\* The join was refused: the sender got an error notice.
Refused(em) == \E k \in DOMAIN em : em[k].ev = "errorMsg"

\* C11: the registry holds exactly one entry per connection that has joined
\* and not since left or disconnected.  No two entries have the same id and
\* no entry belongs to a disconnected socket; a joinQuiz that is not refused
\* leaves the sender registered, a leaveQuiz or disconnect leaves it
\* unregistered, and a socket gets into the registry by its own joinQuiz
\* only and out of it by its own leaveQuiz or disconnect only.
C11_OneEntryPerJoinedConnection ==
  /\ [](\A i, j \in DOMAIN players : players[i].id = players[j].id => i = j)
  /\ [](PlayerIds(players) \cap closed = {})
  /\ [][\A s \in Sockets :
          /\ \/ s \in PlayerIds(players')
             \/ Refused(emitted')
             \/ crashed' # NoError
             \/ \A payload \in JoinPayloadsOf(SpecNicknames) : ~JoinQuiz(s, payload)
          /\ \/ s \notin PlayerIds(players')
             \/ ~LeaveQuiz(s) /\ ~Disconnect(s)
          /\ \/ (s \in PlayerIds(players')) = (s \in PlayerIds(players))
             \/ /\ s \in PlayerIds(players')
                /\ \E payload \in JoinPayloadsOf(SpecNicknames) : JoinQuiz(s, payload)
             \/ /\ s \notin PlayerIds(players')
                /\ LeaveQuiz(s) \/ Disconnect(s)]_vars

\* A registered connection joined again while another was registered after
\* it: the reply went to the socket of the first entry, and there are still
\* two entries.
C11_Witness ==
  /\ Len(players) = 2
  /\ Len(emitted) = 2
  /\ emitted[1].ev = "quizState"
  /\ emitted[1].socket = players[1].id

\* The payload carries a string that is empty once trimmed.
EmptyOnceTrimmed(payload) ==
  /\ payload.t = "object"
  /\ payload.nickname.t = "string"
  /\ Trim(payload.nickname.v) = << >>

\* Only an error notice to socket s was emitted.
OnlyErrorTo(em, s) ==
  /\ Len(em) = 1
  /\ em[1].ev = "errorMsg"
  /\ em[1].to = "socket"
  /\ em[1].socket = s

\* C12: a joinQuiz whose nickname is empty once trimmed (a string of white
\* space too) leaves the registry as it was and sends an error notice to the
\* sender only; and every player's nickname is non-empty, trimmed and at
\* most 20 characters long.
C12_EmptyNicknameRefused ==
  /\ [](\A i \in DOMAIN players :
          /\ players[i].nickname # << >>
          /\ Trim(players[i].nickname) = players[i].nickname
          /\ Len(players[i].nickname) <= NICKNAME_MAX)
  /\ [][\A s \in Sockets :
          \/ players' = players /\ OnlyErrorTo(emitted', s)
          \/ \A payload \in JoinPayloadsOf(NicknameInputs) :
               ~EmptyOnceTrimmed(payload) \/ ~JoinQuiz(s, payload)]_vars

\* C13: answers are accepted only while the quiz is running, that is, while
\* currentQuestionIndex is the index of a question: 0 <= currentQuestionIndex
\* < questions.length (the state joinQuiz reports as running).
C13_AcceptingOnlyWhileRunning ==
  acceptingAnswers =>
    (0 <= currentQuestionIndex /\ currentQuestionIndex < Len(questions))

\* The last question is open while a sendQuestion is queued: the next
\* callback takes the index past the last question.
C13_Witness ==
  /\ acceptingAnswers
  /\ currentQuestionIndex = Len(questions) - 1
  /\ Pending(timers, "sendQuestion") > 0

\* C14: the score of a player changes only by 10 through a right answer of
\* that player that is accepted, or to 0 through a restartQuiz that resets
\* the scores; every other step that keeps the player's entry, a joinQuiz
\* sent again by the player too, leaves the score as it was.
C14_ScoreChangesOnlyByAnswerOrReset ==
  [][\A s \in Sockets :
       \/ PlayerPos(players, s) = 0
       \/ PlayerPos(players', s) = 0
       \/ ScoreOf(players', s) = ScoreOf(players, s)
       \/ /\ ScoreOf(players', s) = ScoreOf(players, s) + CORRECT_POINTS
          /\ \E payload \in SubmitPayloads :
               IsCorrect(payload) /\ SubmitAnswer(s, payload)
       \/ /\ ScoreOf(players', s) = 0
          /\ \E payload \in RestartPayloads :
               /\ payload.t # "null"
               /\ ResetScoresOf(payload)
               /\ RestartQuiz(Sockets, payload)]_vars

\* The round that was open before this step is over or replaced after it.
RoundOver ==
  /\ acceptingAnswers
  /\ ~(acceptingAnswers' /\ currentQuestionIndex' = currentQuestionIndex)

\* The round of the question asked has just ended by its timer.
TimeUp == EndedWith("Time up!")

\* The step before was an answer that was saved, a skip by the host, a
\* disconnect that ended the round, or a restart.
Interfered ==
  \/ \E k \in DOMAIN emitted :
       /\ emitted[k].ev = "answerResult"
       /\ emitted[k].to = "socket" \/ emitted[k].data.summary # "Time up!"
  \/ RestartBroadcast(emitted)

\* C15: when timer callbacks run in the end, a question that is being asked
\* gets its round ended by the timer with "Time up!", unless somebody
\* answers, skips, restarts or disconnects: no other step ends its round or
\* replaces its question, and the timer does in the end; the timer's
\* callback leaves every score as it was; after the pause the next question
\* is asked, or the quiz is finished after the last one; and a quiz that was
\* started and is not restarted finishes in the end.
C15_TimerDrivesTheQuiz ==
  /\ [][RoundOver =>
          \/ TimeUp' /\ currentQuestionIndex' = currentQuestionIndex
          \/ Interfered']_vars
  /\ [][\A i \in DOMAIN timers :
          \/ players' = players
          \/ timers[i].fn # "questionTimer"
          \/ ~Timeout(i)]_vars
  /\ acceptingAnswers ~> (TimeUp \/ Interfered)
  /\ TimeUp ~> (acceptingAnswers \/ Finished \/ Interfered)
  /\ HasQuestion(currentQuestionIndex) ~> (Finished \/ RestartBroadcast(emitted))

\* rows is the registry ps, one row of nickname and score per player and
\* nothing else, by score from high to low, the players of equal score in
\* the order of the registry.
Ranks(rows, ps) ==
  /\ Len(rows) = Len(ps)
  /\ \E f \in [DOMAIN rows -> DOMAIN ps] :
       /\ \A k, l \in DOMAIN rows : k # l => f[k] # f[l]
       /\ \A k \in DOMAIN rows :
            rows[k] = [nickname |-> ps[f[k]].nickname, score |-> ps[f[k]].score]
       /\ \A k, l \in DOMAIN rows :
            k < l => \/ rows[k].score > rows[l].score
                     \/ rows[k].score = rows[l].score /\ f[k] < f[l]

\* C16: every leaderboard sent goes to the room and is the whole registry,
\* one row of nickname and score per player, ordered by score from high to
\* low, players of equal score in the order they were inserted.
C16_LeaderboardRanksRegistry ==
  \A k \in DOMAIN emitted :
    emitted[k].ev = "leaderboard" =>
      emitted[k].to = ROOM /\ Ranks(emitted[k].data, players)

\* A leaderboard was sent whose first row is the player inserted second,
\* who has the higher score.
C16_Witness ==
  /\ Len(players) = 2
  /\ players[1].score < players[2].score
  /\ players[1].nickname # players[2].nickname
  /\ \E k \in DOMAIN emitted :
       /\ emitted[k].ev = "leaderboard"
       /\ emitted[k].data[1].nickname = players[2].nickname
       /\ emitted[k].data[1].score = players[2].score

\* C17: a startQuiz when currentQuestionIndex is not -1 (a question is being
\* asked, the pause after a round, or the quiz is finished) changes no
\* state, emits nothing, sends no question and sets no timer.
C17_SecondStartIsNoOp ==
  [][\/ currentQuestionIndex = -1
     \/ /\ UNCHANGED << players, currentQuestionIndex, acceptingAnswers,
                        answeredThisRound, timers, closed, crashed,
                        roundGain >>
        /\ emitted' = << >>
     \/ ~StartQuiz(Sockets)]_vars

\* A state that a startQuiz leaves when the quiz is finished: the process
\* lives, nothing was emitted, the index is past the last question and a
\* player has points.
C17_Witness ==
  /\ Finished
  /\ crashed = NoError
  /\ emitted = << >>
  /\ \E i \in DOMAIN players : players[i].score > 0

\* C18: a question timer ends the round of its own question only.  While a
\* question timer is pending, the round it was set for is the open one:
\* answers are accepted and currentQuestionIndex is the index of a question
\* (the index changes only where sendQuestion or resetGame run, which is
\* also where the timer is set or cleared); and when its callback runs,
\* answers were accepted until then and the round of the same index ends
\* with "Time up!".
C18_QuestionTimerEndsItsOwnRound ==
  /\ [](Pending(timers, "questionTimer") > 0 =>
          (acceptingAnswers /\ HasQuestion(currentQuestionIndex)))
  /\ [][\A i \in DOMAIN timers :
          \/ timers[i].fn # "questionTimer"
          \/ /\ acceptingAnswers
             /\ TimeUp'
             /\ currentQuestionIndex' = currentQuestionIndex
          \/ ~Timeout(i)]_vars

\* C19: a connection that joins while a question is being asked only
\* watches that round: a submitAnswer it sends before the next question is
\* sent leaves its score as it was.
C19_LateJoinerOnlyWatches ==
  [][\A s \in Sockets :
       \/ s \notin joinedLate
       \/ PlayerPos(players, s) = 0
       \/ Gains(s, 0)
       \/ \A payload \in SubmitPayloads : ~SubmitAnswer(s, payload)]_vars

\* C20: the record of who answered the question being asked holds ids of
\* players in the registry only (and, being a set, each at most once): a
\* connection that left, disconnected or never joined is not in it.
C20_AnsweredAreRegistered ==
  answeredThisRound \subseteq PlayerIds(players)

\* C21: from a start to the end of the quiz the questions are asked in the
\* order of the catalog, none skipped and none repeated.  A step changes
\* currentQuestionIndex by +1 only (a restart sets it to 0); every question
\* sent carries the new index, which is the one after the index before (or 0
\* at a start or restart); the index goes up once per round that ended, so
\* never while the round of the current question is open; and it never
\* goes past questions.length.
C21_QuestionsInOrder ==
  /\ [][/\ \/ currentQuestionIndex' = currentQuestionIndex
           \/ currentQuestionIndex' = currentQuestionIndex + 1
           \/ currentQuestionIndex' = 0 /\ RestartBroadcast(emitted')
        /\ \A k \in DOMAIN emitted' :
             emitted'[k].ev = "question" =>
               /\ emitted'[k].data.index = currentQuestionIndex'
               /\ \/ currentQuestionIndex' = currentQuestionIndex + 1
                  \/ RestartBroadcast(emitted')]_vars
  /\ [][currentQuestionIndex' = currentQuestionIndex + 1 => ~acceptingAnswers]_vars
  /\ [](currentQuestionIndex <= Len(questions))

====
